---- MODULE Spec2Model ----
(***************************************************************************)
(* Real-time collaboration layer of the project-management application:    *)
(*   - the WebSocket room registry and relay of registerRoutes             *)
(*     (wss.on('connection') and its message / close / error handlers);    *)
(*   - the debounced auto-save of LiveDescriptionEditor.                   *)
(* Spec is the server, SpecEditor is one editing session.                  *)
(***************************************************************************)
EXTENDS Integers, Sequences, FiniteSets, TLC

\* ------------------------------------------------------------------ bounds
MaxConns == 2
MaxProjectId == 2

Conns == 1..MaxConns
\* the project ids clients join and address: positive integers
ProjectIds == 1..MaxProjectId

\* the JavaScript value undefined: of a payload field, and of a projectId
\* (encoded as an integer outside ProjectIds)
Undefined == "undefined"
UndefinedId == 0 - 1
Comments == {"hi", "yo"}
Users == {"John Doe"}

VARIABLES
  projectClients,  \* Map<number, Set<WebSocket>>: function, DOMAIN = keys present
  wsProjectId,     \* (ws as any).projectId of every connection
  readyState,      \* ws.readyState; "NONE" before the 'connection' event
  event            \* the handler that ran last: its kind, connection, parsed
                   \* message and the strings it passed to client.send

serverVars == <<projectClients, wsProjectId, readyState, event>>

\* the editing session (LiveDescriptionEditor)
VARIABLES
  content,             \* useState content: the buffer
  isEditing,           \* useState isEditing
  autoSaveStatus,      \* useState autoSaveStatus
  timers,              \* pending setTimeout callbacks: [id, kind, due, arg]
  autoSaveTimeoutRef,  \* autoSaveTimeoutRef.current: a timer id, 0 for null
  nextTimerId,         \* the id the next setTimeout returns
  inflight,            \* updateProject.mutate calls not yet settled: [n, content]
  nRequests,           \* number of updateProject.mutate calls so far
  now,                 \* the clock, in ms
  mounted,             \* the component is mounted
  bufferSince,         \* history: time of the last buffer mutation, and the buffer then
  scheduledAt,         \* history: time of the last scheduleAutoSave call
  nSchedules,          \* history: number of scheduleAutoSave calls
  requestsSince,       \* history: mutate calls since the last scheduleAutoSave call
  lastRequest,         \* history: the last mutate call and bufferSince at that time
  edEvent              \* history: the handler that ran last

editorVars == <<content, isEditing, autoSaveStatus, timers, autoSaveTimeoutRef,
                nextTimerId, inflight, nRequests, now, mounted, bufferSince,
                scheduledAt, nSchedules, requestsSince, lastRequest, edEvent>>

\* the collaborators of the editing session: the stored description and the
\* file uploads
VARIABLES
  persisted,  \* the description the persistence collaborator holds
  applied,    \* the mutate calls (by n) whose PUT the collaborator has applied
  uploads,    \* handleFileUpload calls awaiting uploadFiles.mutateAsync: [id, content]
  nUploads,   \* number of handleFileUpload calls so far
  preUpload   \* history: the buffer when the last upload completed

sessionVars == <<persisted, applied, uploads, nUploads, preUpload>>

\* one browser client: the useWebSocket hook and CommentsSection
VARIABLES
  sockets,       \* readyState of every WebSocket the hook created; "NONE" before
  wsCurrent,     \* ws.current: a socket, 0 for null
  hookProjectId, \* the projectId the hook was last rendered with, 0 for null
  isConnected,   \* useState isConnected
  sent,          \* what ws.send was called with, in order: [socket, type, comment]
  comments,      \* useState comments: the comment ids shown, in order
  nSubmitted,    \* number of comments submitted locally
  lastMessage,   \* useState lastMessage, as of the last setLastMessage call
  rendered,      \* the lastMessage value the effect last ran with
  nReceived,     \* number of messages the socket's onmessage has handled
  received,      \* history: ids of the comment-added messages, in arrival order
  typingUsers,   \* useState typingUsers
  typingTimers,  \* pending setTimeout callbacks of the typing effect: [user, due]
  lastTyping,    \* history: when the effect last handled user-typing, per user
  clientNow,     \* the client's clock, in ms
  clEvent        \* history: the handler that ran last

clientVars == <<sockets, wsCurrent, hookProjectId, isConnected, sent, comments,
                nSubmitted, lastMessage, rendered, nReceived, received,
                typingUsers, typingTimers, lastTyping, clientNow, clEvent>>

\* what the peers have been sent, in the order of the client.send calls
VARIABLES
  inbox,     \* history: per connection, the relays sent to it: [from, n, projectId]
  nRelayed   \* history: number of relay messages handled so far

wireVars == <<inbox, nRelayed>>

\* ------------------------------------------------------------ Map helpers
MapHas(m, k) == k \in DOMAIN m

MapSet(m, k, v) == [x \in DOMAIN m \cup {k} |-> IF x = k THEN v ELSE m[x]]

MapDelete(m, k) == [x \in DOMAIN m \ {k} |-> m[x]]

\* JavaScript truthiness of a projectId value
Truthy(v) == v # UndefinedId /\ v # 0

\* ---------------------------------------------------------------- messages
JoinMsgs(ids) ==
  {[type |-> "join-project", projectId |-> p, comment |-> Undefined, user |-> Undefined] :
     p \in ids}

CommentMsgs(ids) ==
  {[type |-> "new-comment", projectId |-> p, comment |-> c, user |-> Undefined] :
     p \in ids, c \in Comments}

TypingMsgs(ids) ==
  {[type |-> "user-typing", projectId |-> p, comment |-> Undefined, user |-> u] :
     p \in ids, u \in Users}

OtherMsgs ==
  {[type |-> "ping", projectId |-> UndefinedId, comment |-> Undefined, user |-> Undefined]}

\* what JSON.parse returns for the payloads that parse
Datas == JoinMsgs(ProjectIds) \cup CommentMsgs(ProjectIds) \cup TypingMsgs(ProjectIds) \cup OtherMsgs

NoData == [type |-> Undefined, projectId |-> UndefinedId, comment |-> Undefined, user |-> Undefined]

NoSends == [c \in Conns |-> <<>>]

\* ------------------------------------------------------- handler: join
\* slip: the room's member set is replaced instead of added to
JoinProjectFreshSet(pc, ws, projectId) ==
  MapSet(pc, projectId, {ws})

JoinProject(pc, ws, projectId) ==
  LET pc1 == IF ~MapHas(pc, projectId) THEN MapSet(pc, projectId, {}) ELSE pc
  IN  MapSet(pc1, projectId, pc1[projectId] \cup {ws})

\* ------------------------------------------------------ handler: relay
\* slip: fan-out over every registered client instead of the addressed room
RecipientsAllRooms(pc, rs, ws, projectId) ==
  {client \in Conns : /\ client # ws
                      /\ rs[client] = "OPEN"
                      /\ \E p \in DOMAIN pc : client \in pc[p]}

\* slip: the forEach body without the client !== ws test
RecipientsWithSender(pc, rs, ws, projectId) ==
  IF MapHas(pc, projectId)
    THEN {client \in pc[projectId] : rs[client] = "OPEN"}
    ELSE {}

\* slip: the forEach body without the readyState test
RecipientsAnyState(pc, rs, ws, projectId) ==
  IF MapHas(pc, projectId)
    THEN {client \in pc[projectId] : client # ws}
    ELSE {}

\* the clients the forEach body sends to
Recipients(pc, rs, ws, projectId) ==
  IF MapHas(pc, projectId)
    THEN {client \in pc[projectId] : client # ws /\ rs[client] = "OPEN"}
    ELSE {}

\* slip: the relay built from the wrong field of the message
CommentAddedWrongField(data) ==
  [type |-> "comment-added", projectId |-> data.projectId,
   comment |-> data.user, user |-> Undefined]

CommentAdded(data) ==
  [type |-> "comment-added", projectId |-> data.projectId,
   comment |-> data.comment, user |-> Undefined]

UserTyping(data) ==
  [type |-> "user-typing", projectId |-> data.projectId,
   comment |-> Undefined, user |-> data.user]

\* the strings each connection is sent while one message is handled
Sends(pc, rs, ws, data) ==
  LET to == Recipients(pc, rs, ws, data.projectId)
  IN  [c \in Conns |->
        IF c \notin to THEN <<>>
        ELSE IF data.type = "new-comment" THEN <<CommentAdded(data)>>
        ELSE IF data.type = "user-typing" THEN <<UserTyping(data)>>
        ELSE <<>>]

\* ------------------------------------------------------ handler: close
\* slip: the emptied room is left in the map
CloseRoomsKeepsEmpty(pc, projectId, ws) ==
  IF Truthy(projectId) /\ MapHas(pc, projectId)
    THEN MapSet(pc, projectId, pc[projectId] \ {ws})
    ELSE pc

CloseRooms(pc, projectId, ws) ==
  IF Truthy(projectId) /\ MapHas(pc, projectId)
    THEN LET pc1 == MapSet(pc, projectId, pc[projectId] \ {ws})
         IN  IF Cardinality(pc1[projectId]) = 0 THEN MapDelete(pc1, projectId) ELSE pc1
    ELSE pc

\* ----------------------------------------------------------------- server
ServerInit ==
  /\ projectClients = << >>
  /\ wsProjectId = [c \in Conns |-> UndefinedId]
  /\ readyState = [c \in Conns |-> "NONE"]
  /\ event = [kind |-> "listen", ws |-> 0, data |-> NoData, sends |-> NoSends, rejoin |-> FALSE]

\* wss.on('connection')
Connection(ws) ==
  /\ UNCHANGED <<editorVars, wireVars, sessionVars, clientVars>>
  /\ readyState[ws] = "NONE"
  /\ readyState' = [readyState EXCEPT ![ws] = "OPEN"]
  /\ event' = [kind |-> "connection", ws |-> ws, data |-> NoData, sends |-> NoSends, rejoin |-> FALSE]
  /\ UNCHANGED <<projectClients, wsProjectId>>

\* the body of ws.on('message') for a payload JSON.parse accepts
OnMessage(ws, data) ==
  /\ UNCHANGED <<editorVars, sessionVars, clientVars>>
  /\ readyState[ws] = "OPEN"
  /\ projectClients' =
       IF data.type = "join-project"
         THEN JoinProject(projectClients, ws, data.projectId)
         ELSE projectClients
  /\ wsProjectId' =
       IF data.type = "join-project"
         THEN [wsProjectId EXCEPT ![ws] = data.projectId]
         ELSE wsProjectId
  /\ event' = [kind |-> "message", ws |-> ws, data |-> data,
               sends |-> Sends(projectClients', readyState, ws, data),
               rejoin |-> (data.type = "join-project" /\ wsProjectId[ws] = data.projectId)]
  /\ UNCHANGED readyState

\* slip: a relay registers its sender in the addressed room
MessageAutoJoins(ws, data) ==
  /\ UNCHANGED <<editorVars, wireVars, sessionVars, clientVars>>
  /\ readyState[ws] = "OPEN"
  /\ projectClients' = JoinProject(projectClients, ws, data.projectId)
  /\ wsProjectId' = [wsProjectId EXCEPT ![ws] = data.projectId]
  /\ event' = [kind |-> "message", ws |-> ws, data |-> data,
               sends |-> Sends(projectClients', readyState, ws, data),
               rejoin |-> (data.type = "join-project" /\ wsProjectId[ws] = data.projectId)]
  /\ UNCHANGED readyState

\* ws.on('message') with a payload JSON.parse accepts
Message(ws, data) ==
  /\ OnMessage(ws, data)
  /\ UNCHANGED wireVars

\* slip: no try/catch, the parse error tears the connection down
MalformedMessageCloses(ws) ==
  /\ UNCHANGED <<editorVars, wireVars, sessionVars, clientVars>>
  /\ readyState[ws] = "OPEN"
  /\ readyState' = [readyState EXCEPT ![ws] = "CLOSED"]
  /\ projectClients' = CloseRooms(projectClients, wsProjectId[ws], ws)
  /\ event' = [kind |-> "malformed", ws |-> ws, data |-> NoData, sends |-> NoSends, rejoin |-> FALSE]
  /\ UNCHANGED wsProjectId

\* slip: the catch block tells the sender's room about the bad payload
MalformedMessageBroadcasts(ws) ==
  /\ UNCHANGED <<editorVars, wireVars, sessionVars, clientVars>>
  /\ readyState[ws] = "OPEN"
  /\ event' = [kind |-> "malformed", ws |-> ws, data |-> NoData,
               sends |-> [c \in Conns |->
                            IF c \in Recipients(projectClients, readyState, ws, wsProjectId[ws])
                              THEN << [type |-> "error", projectId |-> wsProjectId[ws],
                                       comment |-> Undefined, user |-> Undefined] >>
                              ELSE <<>>],
               rejoin |-> FALSE]
  /\ UNCHANGED <<projectClients, wsProjectId, readyState>>

\* ws.on('message') with a payload JSON.parse throws on: caught and logged
MalformedMessage(ws) ==
  /\ UNCHANGED <<editorVars, wireVars, sessionVars, clientVars>>
  /\ readyState[ws] = "OPEN"
  /\ event' = [kind |-> "malformed", ws |-> ws, data |-> NoData, sends |-> NoSends, rejoin |-> FALSE]
  /\ UNCHANGED <<projectClients, wsProjectId, readyState>>

\* ws.on('error'): logged; the transport is closing and 'close' follows
Error(ws) ==
  /\ UNCHANGED <<editorVars, wireVars, sessionVars, clientVars>>
  /\ readyState[ws] = "OPEN"
  /\ readyState' = [readyState EXCEPT ![ws] = "CLOSING"]
  /\ event' = [kind |-> "error", ws |-> ws, data |-> NoData, sends |-> NoSends, rejoin |-> FALSE]
  /\ UNCHANGED <<projectClients, wsProjectId>>

\* slip: close marks the connection closed and leaves the registry alone
CloseLeavesRoom(ws) ==
  /\ UNCHANGED <<editorVars, wireVars, sessionVars, clientVars>>
  /\ readyState[ws] \in {"OPEN", "CLOSING"}
  /\ readyState' = [readyState EXCEPT ![ws] = "CLOSED"]
  /\ event' = [kind |-> "close", ws |-> ws, data |-> NoData, sends |-> NoSends, rejoin |-> FALSE]
  /\ UNCHANGED <<projectClients, wsProjectId>>

\* ws.on('close')
Close(ws) ==
  /\ UNCHANGED <<editorVars, wireVars, sessionVars, clientVars>>
  /\ readyState[ws] \in {"OPEN", "CLOSING"}
  /\ readyState' = [readyState EXCEPT ![ws] = "CLOSED"]
  /\ projectClients' = CloseRooms(projectClients, wsProjectId[ws], ws)
  /\ event' = [kind |-> "close", ws |-> ws, data |-> NoData, sends |-> NoSends, rejoin |-> FALSE]
  /\ UNCHANGED wsProjectId

ServerNext ==
  \/ \E ws \in Conns : Connection(ws)
  \/ \E ws \in Conns, data \in Datas : Message(ws, data)
  \/ \E ws \in Conns : MalformedMessage(ws)
  \/ \E ws \in Conns : Error(ws)
  \/ \E ws \in Conns : Close(ws)

\* ------------------------------------------------------------ the wire
MaxRelays == 3

WireInit ==
  /\ inbox = [c \in Conns |-> <<>>]
  /\ nRelayed = 0

\* slip: what is sent last is put in front of what was sent before
SendFirst(q, msgs, from, n) ==
  [i \in 1..Len(msgs) |-> [from |-> from, n |-> n, projectId |-> msgs[i].projectId]] \o q

\* client.send: the strings go onto the connection's stream behind those
\* sent before
Send(q, msgs, from, n) ==
  q \o [i \in 1..Len(msgs) |-> [from |-> from, n |-> n, projectId |-> msgs[i].projectId]]

\* slip: a join is answered with the last relay handled before it
RelayMessageReplays(ws, data) ==
  /\ OnMessage(ws, data)
  /\ IF data.type \in {"new-comment", "user-typing"}
       THEN /\ nRelayed < MaxRelays
            /\ nRelayed' = nRelayed + 1
            /\ inbox' = [c \in Conns |-> Send(inbox[c], event'.sends[c], ws, nRelayed')]
       ELSE /\ nRelayed' = nRelayed
            /\ inbox' = IF data.type = "join-project" /\ nRelayed > 0
                          THEN [inbox EXCEPT ![ws] = Send(@, <<data>>, 0, nRelayed)]
                          ELSE inbox

\* ws.on('message') run to completion, with what it puts on the wire
RelayMessage(ws, data) ==
  /\ OnMessage(ws, data)
  /\ IF data.type \in {"new-comment", "user-typing"}
       THEN /\ nRelayed < MaxRelays
            /\ nRelayed' = nRelayed + 1
            /\ inbox' = [c \in Conns |-> Send(inbox[c], event'.sends[c], ws, nRelayed')]
       ELSE UNCHANGED wireVars

\* the payloads of the ordering runs: joins and comments of one room
FifoDatas == JoinMsgs({1}) \cup CommentMsgs({1})

NextFifo ==
  \/ \E ws \in Conns : Connection(ws)
  \/ \E ws \in Conns, data \in FifoDatas : RelayMessage(ws, data)
  \/ \E ws \in Conns : MalformedMessage(ws)
  \/ \E ws \in Conns : Error(ws)
  \/ \E ws \in Conns : Close(ws)

\* ==================================================== LiveDescriptionEditor
\* ------------------------------------------------------------------ bounds
TickMs == 500
MaxTicks == 8
MaxSchedules == 3

\* ------------------------------------------------------- program constants
AutoSaveDelay == 2000
StatusResetDelay == 2000

\* buffer contents the user can produce
Texts == {"", "a", "ab"}

NoRequest == [at |-> 0, content |-> "", bufferAt |-> 0, buffer |-> ""]

\* slip: the pending timeout is not cleared before a new one is set
ClearTimeoutForgotten(ts, id) == ts

\* clearTimeout(id): no effect when id is null or the timer has fired
ClearTimeout(ts, id) == {t \in ts : t.id # id}

\* the timers after scheduleAutoSave(newContent) called at time t
ScheduleTimers(ts, ref, id, t, newContent) ==
  ClearTimeout(ts, ref) \cup
    {[id |-> id, kind |-> "save", due |-> t + AutoSaveDelay, arg |-> newContent]}

\* scheduleAutoSave(newContent)
ScheduleAutoSave(newContent) ==
  /\ nSchedules < MaxSchedules
  /\ autoSaveStatus' = "saving"
  /\ timers' = ScheduleTimers(timers, autoSaveTimeoutRef, nextTimerId, now, newContent)
  /\ autoSaveTimeoutRef' = nextTimerId
  /\ nextTimerId' = nextTimerId + 1
  /\ scheduledAt' = now
  /\ nSchedules' = nSchedules + 1
  /\ requestsSince' = 0

EditorInit ==
  /\ content \in Texts
  /\ isEditing = FALSE
  /\ autoSaveStatus = "idle"
  /\ timers = {}
  /\ autoSaveTimeoutRef = 0
  /\ nextTimerId = 1
  /\ inflight = {}
  /\ nRequests = 0
  /\ now = 0
  /\ mounted = TRUE
  /\ bufferSince = [at |-> 0, content |-> content]
  /\ scheduledAt = 0
  /\ nSchedules = 0
  /\ requestsSince = 0
  /\ lastRequest = NoRequest
  /\ edEvent = "mount"

\* toggleEditing
ToggleEditing ==
  /\ UNCHANGED <<serverVars, wireVars, sessionVars, clientVars>>
  /\ mounted
  /\ isEditing' = ~isEditing
  /\ edEvent' = "toggle"
  /\ UNCHANGED <<content, autoSaveStatus, timers, autoSaveTimeoutRef, nextTimerId,
                 inflight, nRequests, now, mounted, bufferSince, scheduledAt,
                 nSchedules, requestsSince, lastRequest>>

\* Textarea onChange: setContent(newValue); scheduleAutoSave(newValue)
Change(newValue) ==
  /\ UNCHANGED <<serverVars, wireVars, sessionVars, clientVars>>
  /\ mounted /\ isEditing
  /\ newValue # content
  /\ content' = newValue
  /\ ScheduleAutoSave(newValue)
  /\ bufferSince' = [at |-> now, content |-> newValue]
  /\ edEvent' = "change"
  /\ UNCHANGED <<isEditing, inflight, nRequests, now, mounted, lastRequest>>

\* handleSlashCommand('/save'): scheduleAutoSave(content)
SaveCommand ==
  /\ UNCHANGED <<serverVars, wireVars, sessionVars, clientVars>>
  /\ mounted /\ isEditing
  /\ ScheduleAutoSave(content)
  /\ edEvent' = "save"
  /\ UNCHANGED <<content, isEditing, inflight, nRequests, now, mounted,
                 bufferSince, lastRequest>>

\* the auto-save timeout callback: updateProject.mutate({description: newContent})
AutoSaveTimeout(t) ==
  /\ UNCHANGED <<serverVars, wireVars, sessionVars, clientVars>>
  /\ t \in timers /\ t.kind = "save" /\ t.due <= now
  /\ timers' = timers \ {t}
  /\ nRequests' = nRequests + 1
  /\ inflight' = inflight \cup {[n |-> nRequests + 1, content |-> t.arg]}
  /\ requestsSince' = requestsSince + 1
  /\ lastRequest' = [at |-> now, content |-> t.arg,
                     bufferAt |-> bufferSince.at, buffer |-> bufferSince.content]
  /\ edEvent' = "request"
  /\ UNCHANGED <<content, isEditing, autoSaveStatus, autoSaveTimeoutRef, nextTimerId,
                 now, mounted, bufferSince, scheduledAt, nSchedules>>

\* whether the callbacks passed to mutate run when request r settles: never
\* after unmount; for a call superseded by a later mutate call either way
CallbacksRun(r, cb) ==
  /\ cb => mounted
  /\ ~cb => (~mounted \/ r.n # nRequests)

\* the request succeeds: onSuccess
RequestSucceeds(r, cb) ==
  /\ UNCHANGED <<serverVars, wireVars, sessionVars, clientVars>>
  /\ r \in inflight
  /\ CallbacksRun(r, cb)
  /\ inflight' = inflight \ {r}
  /\ IF cb
       THEN /\ autoSaveStatus' = "saved"
            /\ timers' = timers \cup
                 {[id |-> nextTimerId, kind |-> "reset",
                   due |-> now + StatusResetDelay, arg |-> ""]}
            /\ nextTimerId' = nextTimerId + 1
       ELSE UNCHANGED <<autoSaveStatus, timers, nextTimerId>>
  /\ edEvent' = "success"
  /\ UNCHANGED <<content, isEditing, autoSaveTimeoutRef, nRequests, now, mounted,
                 bufferSince, scheduledAt, nSchedules, requestsSince, lastRequest>>

\* slip: the failed request is re-issued from onError
RequestFailsRetries(r, cb) ==
  /\ UNCHANGED <<serverVars, wireVars, sessionVars, clientVars>>
  /\ r \in inflight
  /\ CallbacksRun(r, cb)
  /\ inflight' = (inflight \ {r}) \cup {[n |-> nRequests + 1, content |-> r.content]}
  /\ nRequests' = nRequests + 1
  /\ autoSaveStatus' = IF cb THEN "idle" ELSE autoSaveStatus
  /\ edEvent' = "failure"
  /\ UNCHANGED <<content, isEditing, timers, autoSaveTimeoutRef, nextTimerId,
                 now, mounted, bufferSince, scheduledAt, nSchedules,
                 requestsSince, lastRequest>>

\* the request fails: onError
RequestFails(r, cb) ==
  /\ UNCHANGED <<serverVars, wireVars, sessionVars, clientVars>>
  /\ r \in inflight
  /\ CallbacksRun(r, cb)
  /\ inflight' = inflight \ {r}
  /\ autoSaveStatus' = IF cb THEN "idle" ELSE autoSaveStatus
  /\ edEvent' = "failure"
  /\ UNCHANGED <<content, isEditing, timers, autoSaveTimeoutRef, nextTimerId,
                 nRequests, now, mounted, bufferSince, scheduledAt, nSchedules,
                 requestsSince, lastRequest>>

\* setTimeout(() => setAutoSaveStatus('idle'), 2000)
StatusResetTimeout(t) ==
  /\ UNCHANGED <<serverVars, wireVars, sessionVars, clientVars>>
  /\ t \in timers /\ t.kind = "reset" /\ t.due <= now
  /\ timers' = timers \ {t}
  /\ autoSaveStatus' = IF mounted THEN "idle" ELSE autoSaveStatus
  /\ edEvent' = "reset"
  /\ UNCHANGED <<content, isEditing, autoSaveTimeoutRef, nextTimerId, inflight,
                 nRequests, now, mounted, bufferSince, scheduledAt, nSchedules,
                 requestsSince, lastRequest>>

\* the useEffect cleanup: clearTimeout(autoSaveTimeoutRef.current)
Unmount ==
  /\ UNCHANGED <<serverVars, wireVars, sessionVars, clientVars>>
  /\ mounted
  /\ mounted' = FALSE
  /\ timers' = ClearTimeout(timers, autoSaveTimeoutRef)
  /\ edEvent' = "unmount"
  /\ UNCHANGED <<content, isEditing, autoSaveStatus, autoSaveTimeoutRef, nextTimerId,
                 inflight, nRequests, now, bufferSince, scheduledAt, nSchedules,
                 requestsSince, lastRequest>>

\* time passes; a timeout that is due runs before the clock moves on
Tick ==
  /\ UNCHANGED <<serverVars, wireVars, sessionVars, clientVars>>
  /\ now + TickMs <= MaxTicks * TickMs
  /\ \A t \in timers : t.due > now
  /\ now' = now + TickMs
  /\ edEvent' = "tick"
  /\ UNCHANGED <<content, isEditing, autoSaveStatus, timers, autoSaveTimeoutRef,
                 nextTimerId, inflight, nRequests, mounted, bufferSince,
                 scheduledAt, nSchedules, requestsSince, lastRequest>>

EditorNext ==
  \/ ToggleEditing
  \/ \E newValue \in Texts : Change(newValue)
  \/ SaveCommand
  \/ \E t \in timers : AutoSaveTimeout(t)
  \/ \E r \in inflight, cb \in BOOLEAN : RequestSucceeds(r, cb)
  \/ \E r \in inflight, cb \in BOOLEAN : RequestFails(r, cb)
  \/ \E t \in timers : StatusResetTimeout(t)
  \/ Unmount
  \/ Tick

\* ------------------------------------------- the persistence collaborator
\* the session's collaborators before any request or upload; p is the stored
\* description
SessionInit(p) ==
  /\ persisted = p
  /\ applied = {}
  /\ uploads = {}
  /\ nUploads = 0
  /\ preUpload = ""

\* PUT /api/projects/:id of request r reaches the collaborator and is applied
ServerApplies(r) ==
  /\ UNCHANGED <<serverVars, wireVars, editorVars, clientVars>>
  /\ r \in inflight
  /\ r.n \notin applied
  /\ applied' = applied \cup {r.n}
  /\ persisted' = r.content
  /\ UNCHANGED <<uploads, nUploads, preUpload>>

\* the response of an applied request arrives: onSuccess
ResponseArrives(r, cb) ==
  /\ r.n \in applied
  /\ RequestSucceeds(r, cb)

\* a session that stays mounted and whose requests all succeed
NextPersist ==
  \/ ToggleEditing
  \/ \E newValue \in Texts : Change(newValue)
  \/ SaveCommand
  \/ \E t \in timers : AutoSaveTimeout(t)
  \/ \E r \in inflight : ServerApplies(r)
  \/ \E r \in inflight, cb \in BOOLEAN : ResponseArrives(r, cb)
  \/ \E t \in timers : StatusResetTimeout(t)
  \/ Tick

\* ------------------------------------------------------------ file upload
MaxUploads == 1

\* the markdown reference of an uploaded file that is not an image
FileLink == "[f](u)"

\* newContent of handleFileUpload: the reference put into the content the
\* handler holds, at the textarea's selectionStart
InsertFile(held, selectionStart) ==
  LET cursorPosition == IF selectionStart = 0 THEN Len(held) ELSE selectionStart
      cut == IF cursorPosition < Len(held) THEN cursorPosition ELSE Len(held)
      beforeCursor == SubSeq(held, 1, cut)
      afterCursor == SubSeq(held, cut + 1, Len(held))
      prefix == IF beforeCursor # "" /\
                   SubSeq(beforeCursor, Len(beforeCursor), Len(beforeCursor)) # "\n"
                  THEN "\n" ELSE ""
  IN  beforeCursor \o prefix \o FileLink \o "\n" \o afterCursor

\* handleFileUpload up to its await: the call keeps the content of the render
\* it was made in
StartUpload ==
  /\ UNCHANGED <<serverVars, wireVars, editorVars, clientVars>>
  /\ mounted /\ isEditing
  /\ nUploads < MaxUploads
  /\ nUploads' = nUploads + 1
  /\ uploads' = uploads \cup {[id |-> nUploads + 1, content |-> content]}
  /\ UNCHANGED <<persisted, applied, preUpload>>

\* handleFileUpload after its await: setContent(newContent);
\* scheduleAutoSave(newContent)
UploadCompletes(u, selectionStart) ==
  /\ UNCHANGED <<serverVars, wireVars, clientVars>>
  /\ u \in uploads
  /\ mounted
  /\ uploads' = uploads \ {u}
  /\ preUpload' = content
  /\ content' = InsertFile(u.content, selectionStart)
  /\ ScheduleAutoSave(content')
  /\ bufferSince' = [at |-> now, content |-> content']
  /\ edEvent' = "uploaded"
  /\ UNCHANGED <<isEditing, inflight, nRequests, now, mounted, lastRequest,
                 persisted, applied, nUploads>>

\* uploadFiles.mutateAsync rejects: the catch block shows a toast
UploadFails(u) ==
  /\ UNCHANGED <<serverVars, wireVars, clientVars>>
  /\ u \in uploads
  /\ uploads' = uploads \ {u}
  /\ edEvent' = "upload-failed"
  /\ UNCHANGED <<content, isEditing, autoSaveStatus, timers, autoSaveTimeoutRef,
                 nextTimerId, inflight, nRequests, now, mounted, bufferSince,
                 scheduledAt, nSchedules, requestsSince, lastRequest,
                 persisted, applied, nUploads, preUpload>>

\* an editing session with uploads
NextUpload ==
  \/ ToggleEditing
  \/ \E newValue \in Texts : Change(newValue)
  \/ StartUpload
  \/ \E u \in uploads, selectionStart \in {0, Len(content)} : UploadCompletes(u, selectionStart)
  \/ \E u \in uploads : UploadFails(u)
  \/ \E t \in timers : AutoSaveTimeout(t)
  \/ \E r \in inflight, cb \in BOOLEAN : RequestSucceeds(r, cb)
  \/ Tick

\* ============================================================ the client
MaxSockets == 2
Sockets == 1..MaxSockets

NoMessage == [n |-> 0, type |-> "none", comment |-> 0, user |-> ""]

\* CommentsSection mounted with projectId 1: the hook's effect has created the
\* first socket
ClientInit ==
  /\ sockets = [s \in Sockets |-> IF s = 1 THEN "CONNECTING" ELSE "NONE"]
  /\ wsCurrent = 1
  /\ hookProjectId = 1
  /\ isConnected = FALSE
  /\ sent = <<>>
  /\ comments = <<>>
  /\ nSubmitted = 0
  /\ lastMessage = NoMessage
  /\ rendered = NoMessage
  /\ nReceived = 0
  /\ received = <<>>
  /\ typingUsers = {}
  /\ typingTimers = {}
  /\ lastTyping = [u \in Users |-> 0 - 1]
  /\ clientNow = 0
  /\ clEvent = "mount"

\* ------------------------------------------------------- useWebSocket
\* the values of the projectId prop: a room id, or 0 for null
HookProjectIds == ProjectIds \cup {0}

\* socket.close(): a socket that is connecting or open starts closing
CloseSocket(ss, s) ==
  IF s # 0 /\ ss[s] \in {"CONNECTING", "OPEN"}
    THEN [ss EXCEPT ![s] = "CLOSING"]
    ELSE ss

\* the hook is rendered with another projectId: the effect's cleanup runs,
\* then the effect
ProjectIdChanges(p) ==
  /\ UNCHANGED <<serverVars, wireVars, editorVars, sessionVars>>
  /\ p # hookProjectId
  /\ hookProjectId' = p
  /\ IF p = 0
       THEN /\ sockets' = CloseSocket(sockets, wsCurrent)
            /\ wsCurrent' = 0
       ELSE /\ \E s \in Sockets : sockets[s] = "NONE"
            /\ LET new == CHOOSE s \in Sockets :
                            sockets[s] = "NONE" /\ \A q \in Sockets : q < s => sockets[q] # "NONE"
               IN  /\ sockets' = [CloseSocket(sockets, wsCurrent) EXCEPT ![new] = "CONNECTING"]
                   /\ wsCurrent' = new
  /\ clEvent' = "projectId"
  /\ UNCHANGED <<isConnected, sent, comments, nSubmitted, lastMessage, rendered,
                 nReceived, received, typingUsers, typingTimers, lastTyping, clientNow>>

\* onopen of socket s
SocketOpens(s) ==
  /\ UNCHANGED <<serverVars, wireVars, editorVars, sessionVars>>
  /\ sockets[s] = "CONNECTING"
  /\ sockets' = [sockets EXCEPT ![s] = "OPEN"]
  /\ isConnected' = TRUE
  /\ sent' = IF wsCurrent # 0
               THEN Append(sent, [socket |-> wsCurrent, type |-> "join-project",
                                  projectId |-> hookProjectId, comment |-> 0])
               ELSE sent
  /\ clEvent' = "open"
  /\ UNCHANGED <<wsCurrent, hookProjectId, comments, nSubmitted, lastMessage, rendered,
                 nReceived, received, typingUsers, typingTimers, lastTyping, clientNow>>

\* onclose of socket s: the handler stays on a socket the hook has replaced
SocketCloses(s) ==
  /\ UNCHANGED <<serverVars, wireVars, editorVars, sessionVars>>
  /\ sockets[s] \in {"CONNECTING", "OPEN", "CLOSING"}
  /\ sockets' = [sockets EXCEPT ![s] = "CLOSED"]
  /\ isConnected' = FALSE
  /\ clEvent' = "close"
  /\ UNCHANGED <<wsCurrent, hookProjectId, sent, comments, nSubmitted, lastMessage,
                 rendered, nReceived, received, typingUsers, typingTimers, lastTyping,
                 clientNow>>

\* onerror of socket s; the socket is no longer open and its close event is
\* still to come ("CLOSING")
SocketErrors(s) ==
  /\ UNCHANGED <<serverVars, wireVars, editorVars, sessionVars>>
  /\ sockets[s] \in {"CONNECTING", "OPEN"}
  /\ sockets' = [sockets EXCEPT ![s] = "CLOSING"]
  /\ isConnected' = FALSE
  /\ clEvent' = "error"
  /\ UNCHANGED <<wsCurrent, hookProjectId, sent, comments, nSubmitted, lastMessage,
                 rendered, nReceived, received, typingUsers, typingTimers, lastTyping,
                 clientNow>>

\* ------------------------------------------------------- CommentsSection
MaxSubmits == 2

\* what the comment box may hold when the comment is submitted
CommentTexts == {"", " ", "hi"}

\* !newComment.trim()
IsBlank(text) == text \in {"", " "}

\* sendMessage: ws.send only on a current socket that is open
SendMessage(q, ss, cur, msg) ==
  IF cur # 0 /\ ss[cur] = "OPEN" THEN Append(q, msg) ELSE q

\* slip: the comment is shown only once it could be sent
SubmitCommentWhenSent(text, nAttachments) ==
  /\ UNCHANGED <<serverVars, wireVars, editorVars, sessionVars>>
  /\ ~(IsBlank(text) /\ nAttachments = 0)
  /\ nSubmitted < MaxSubmits
  /\ nSubmitted' = nSubmitted + 1
  /\ comments' = IF isConnected
                   THEN Append(comments, [src |-> "local", n |-> nSubmitted + 1])
                   ELSE comments
  /\ sent' = IF isConnected
               THEN SendMessage(sent, sockets, wsCurrent,
                                [socket |-> wsCurrent, type |-> "new-comment",
                                 projectId |-> hookProjectId, comment |-> nSubmitted + 1])
               ELSE sent
  /\ clEvent' = "submit"
  /\ UNCHANGED <<sockets, wsCurrent, hookProjectId, isConnected, lastMessage, rendered,
                 nReceived, received, typingUsers, typingTimers, lastTyping, clientNow>>

\* handleSubmitComment
SubmitComment(text, nAttachments) ==
  /\ UNCHANGED <<serverVars, wireVars, editorVars, sessionVars>>
  /\ ~(IsBlank(text) /\ nAttachments = 0)
  /\ nSubmitted < MaxSubmits
  /\ nSubmitted' = nSubmitted + 1
  /\ comments' = Append(comments, [src |-> "local", n |-> nSubmitted + 1])
  /\ sent' = IF isConnected
               THEN SendMessage(sent, sockets, wsCurrent,
                                [socket |-> wsCurrent, type |-> "new-comment",
                                 projectId |-> hookProjectId, comment |-> nSubmitted + 1])
               ELSE sent
  /\ clEvent' = "submit"
  /\ UNCHANGED <<sockets, wsCurrent, hookProjectId, isConnected, lastMessage, rendered,
                 nReceived, received, typingUsers, typingTimers, lastTyping, clientNow>>

\* a client that posts comments while its sockets come and go
NextClient ==
  \/ \E p \in HookProjectIds : ProjectIdChanges(p)
  \/ \E s \in Sockets : SocketOpens(s)
  \/ \E s \in Sockets : SocketCloses(s)
  \/ \E s \in Sockets : SocketErrors(s)
  \/ \E text \in CommentTexts, nAttachments \in {0, 1} : SubmitComment(text, nAttachments)

\* ------------------------------------------------- the incoming messages
MaxMessages == 3
TypingDelay == 3000

\* onmessage of socket s: JSON.parse, then setLastMessage(message); user is ""
\* for a message that has none
OnSocketMessage(s, type, user) ==
  /\ UNCHANGED <<serverVars, wireVars, editorVars, sessionVars>>
  /\ sockets[s] = "OPEN"
  /\ nReceived < MaxMessages
  /\ (type = "user-typing") = (user # "")
  /\ nReceived' = nReceived + 1
  /\ lastMessage' = [n |-> nReceived + 1, type |-> type,
                     comment |-> IF type = "comment-added" THEN nReceived + 1 ELSE 0,
                     user |-> user]
  /\ received' = IF type = "comment-added" THEN Append(received, nReceived + 1) ELSE received
  /\ clEvent' = "message"
  /\ UNCHANGED <<sockets, wsCurrent, hookProjectId, isConnected, sent, comments,
                 nSubmitted, rendered, typingUsers, typingTimers, lastTyping, clientNow>>

\* the component renders with the lastMessage set last and the effect on
\* [lastMessage] runs
MessageEffect ==
  /\ UNCHANGED <<serverVars, wireVars, editorVars, sessionVars>>
  /\ lastMessage # rendered
  /\ rendered' = lastMessage
  /\ comments' = IF lastMessage.type = "comment-added"
                   THEN Append(comments, [src |-> "remote", n |-> lastMessage.comment])
                   ELSE comments
  /\ IF lastMessage.type = "user-typing" /\ lastMessage.user # ""
       THEN /\ typingUsers' = typingUsers \cup {lastMessage.user}
            /\ typingTimers' = typingTimers \cup
                 {[user |-> lastMessage.user, due |-> clientNow + TypingDelay]}
            /\ lastTyping' = [lastTyping EXCEPT ![lastMessage.user] = clientNow]
       ELSE UNCHANGED <<typingUsers, typingTimers, lastTyping>>
  /\ clEvent' = "effect"
  /\ UNCHANGED <<sockets, wsCurrent, hookProjectId, isConnected, sent, nSubmitted,
                 lastMessage, nReceived, received, clientNow>>

\* the 3000 ms timeout of the typing effect
TypingTimeout(t) ==
  /\ UNCHANGED <<serverVars, wireVars, editorVars, sessionVars>>
  /\ t \in typingTimers /\ t.due <= clientNow
  /\ typingTimers' = typingTimers \ {t}
  /\ typingUsers' = typingUsers \ {t.user}
  /\ clEvent' = "typing-timeout"
  /\ UNCHANGED <<sockets, wsCurrent, hookProjectId, isConnected, sent, comments,
                 nSubmitted, lastMessage, rendered, nReceived, received, lastTyping,
                 clientNow>>

\* time passes at the client; a pending render and a timeout that is due
\* run before the clock moves on
ClientTick ==
  /\ UNCHANGED <<serverVars, wireVars, editorVars, sessionVars>>
  /\ clientNow + TickMs <= MaxTicks * TickMs
  /\ lastMessage = rendered
  /\ \A t \in typingTimers : t.due > clientNow
  /\ clientNow' = clientNow + TickMs
  /\ clEvent' = "tick"
  /\ UNCHANGED <<sockets, wsCurrent, hookProjectId, isConnected, sent, comments,
                 nSubmitted, lastMessage, rendered, nReceived, received, typingUsers,
                 typingTimers, lastTyping>>

\* a client that receives what the server relays
NextFeed ==
  \/ \E s \in Sockets : SocketOpens(s)
  \/ \E s \in Sockets, user \in Users : OnSocketMessage(s, "user-typing", user)
  \/ \E s \in Sockets : OnSocketMessage(s, "comment-added", "")
  \/ MessageEffect
  \/ \E t \in typingTimers : TypingTimeout(t)
  \/ ClientTick

\* ========================================================== specifications
vars == <<serverVars, editorVars, wireVars, sessionVars, clientVars>>

\* the server alone: no editing session runs
Init == ServerInit /\ WireInit /\ EditorInit /\ content = "" /\ SessionInit("") /\ ClientInit

Next == ServerNext

Spec == Init /\ [][Next]_vars

\* the server with the transport's promise that 'close' is emitted on a
\* connection after 'error' was
CloseAfterError(ws) == readyState[ws] = "CLOSING" /\ Close(ws)

\* the payloads of the lifecycle runs: joins and one relay kind, addressed
\* to the first and the last room
LiveIds == {1, MaxProjectId}

LiveDatas == JoinMsgs(LiveIds) \cup TypingMsgs(LiveIds)

NextLive ==
  \/ \E ws \in Conns : Connection(ws)
  \/ \E ws \in Conns, data \in LiveDatas : Message(ws, data)
  \/ \E ws \in Conns : MalformedMessage(ws)
  \/ \E ws \in Conns : Error(ws)
  \/ \E ws \in Conns : Close(ws)

SpecLive == Init /\ [][NextLive]_vars /\ \A ws \in Conns : WF_vars(CloseAfterError(ws))

SpecFifo == Init /\ [][NextFifo]_vars

\* the server with joins that name room 0, which join-project accepts as it
\* accepts any value
FalsyIds == {0, MaxProjectId}

FalsyDatas == JoinMsgs(FalsyIds) \cup TypingMsgs(FalsyIds)

NextFalsy ==
  \/ \E ws \in Conns : Connection(ws)
  \/ \E ws \in Conns, data \in FalsyDatas : Message(ws, data)
  \/ \E ws \in Conns : MalformedMessage(ws)
  \/ \E ws \in Conns : Error(ws)
  \/ \E ws \in Conns : Close(ws)

SpecFalsy == Init /\ [][NextFalsy]_vars

\* one editing session alone: the server has no connection
InitEditor == EditorInit /\ ServerInit /\ WireInit /\ SessionInit("") /\ ClientInit

NextEditor == EditorNext

SpecEditor == InitEditor /\ [][NextEditor]_vars

\* one editing session and the collaborator that stores the description
InitPersist == EditorInit /\ ServerInit /\ WireInit /\ SessionInit(content) /\ ClientInit

SpecPersist == InitPersist /\ [][NextPersist]_vars

\* one editing session with file uploads
SpecUpload == InitEditor /\ [][NextUpload]_vars

\* one browser client alone
SpecClient == Init /\ [][NextClient]_vars

SpecFeed == Init /\ [][NextFeed]_vars

\* ======================================================= server properties
\* the rooms whose member set holds connection c
RoomsOf(c) == {p \in DOMAIN projectClients : c \in projectClients[p]}

\* the handler that ran last relayed a new-comment or user-typing message
IsRelay ==
  /\ event.kind = "message"
  /\ event.data.type \in {"new-comment", "user-typing"}

\* C1 - Room isolation: a new-comment or user-typing message whose projectId
\* is A is never sent to a connection that is registered only in a room B # A,
\* and whatever is sent carries projectId A.
RoomIsolation ==
  IsRelay =>
    \A c \in Conns :
      /\ (\E B \in ProjectIds : B # event.data.projectId /\ RoomsOf(c) = {B})
            => event.sends[c] = <<>>
      /\ \A i \in 1..Len(event.sends[c]) :
            event.sends[c][i].projectId = event.data.projectId

RoomIsolationWitness ==
  /\ IsRelay
  /\ event.data.projectId \in RoomsOf(event.ws)
  /\ \E c \in Conns, B \in ProjectIds :
        /\ B # event.data.projectId
        /\ RoomsOf(c) = {B}
        /\ readyState[c] = "OPEN"
        /\ event.sends[c] = <<>>

\* C2 - No self-delivery: the connection that sent a new-comment or
\* user-typing message is never among the connections the relay is sent to.
NoSelfDelivery ==
  IsRelay => event.sends[event.ws] = <<>>

NoSelfDeliveryWitness ==
  /\ IsRelay
  /\ event.data.projectId \in RoomsOf(event.ws)
  /\ Cardinality(RoomsOf(event.ws)) = 2
  /\ event.sends[event.ws] = <<>>
  /\ \E c \in Conns : event.sends[c] # <<>>

\* C3 - Cleanup on disconnect: once a connection's close has been handled no
\* member set contains it, a room it was the sole member of is gone, and
\* handling close again changes nothing.
CleanupOnDisconnect ==
  \A c \in Conns :
    readyState[c] = "CLOSED" =>
      /\ \A p \in DOMAIN projectClients :
            c \notin projectClients[p] /\ projectClients[p] # {}
      /\ CloseRooms(projectClients, wsProjectId[c], c) = projectClients

\* C4 - Re-join replaces membership: after join A then join B the connection
\* is a member of B only; no connection is ever a member of two rooms.
RejoinReplacesMembership ==
  \A c \in Conns :
    /\ Cardinality(RoomsOf(c)) <= 1
    /\ (readyState[c] = "OPEN" /\ wsProjectId[c] # UndefinedId)
          => RoomsOf(c) = {wsProjectId[c]}

\* C5 - Malformed message resilience: handling an unparseable payload leaves
\* the connection open, keeps the registry as it was and sends nothing, so the
\* handlers see the state they would have seen without it.
MalformedMessageResilience ==
  [][event'.kind = "malformed" =>
       /\ readyState'[event'.ws] = "OPEN"
       /\ UNCHANGED <<projectClients, wsProjectId, readyState>>
       /\ event'.sends = NoSends]_vars

MalformedMessageWitness ==
  /\ event.kind = "malformed"
  /\ readyState[event.ws] = "OPEN"
  /\ RoomsOf(event.ws) # {}

\* C6 - Relay envelope: when a joined connection sends new-comment or
\* user-typing, every other open member of the addressed room is sent exactly
\* one message: comment-added with the same projectId and comment, or
\* user-typing with the same projectId and user.
RelayEnvelope ==
  (IsRelay /\ wsProjectId[event.ws] # UndefinedId) =>
    \A m \in Conns :
      (/\ m # event.ws
       /\ MapHas(projectClients, event.data.projectId)
       /\ m \in projectClients[event.data.projectId]
       /\ readyState[m] = "OPEN")
      => event.sends[m] =
           IF event.data.type = "new-comment"
             THEN << [type |-> "comment-added", projectId |-> event.data.projectId,
                      comment |-> event.data.comment, user |-> Undefined] >>
             ELSE << [type |-> "user-typing", projectId |-> event.data.projectId,
                      comment |-> Undefined, user |-> event.data.user] >>

RelayEnvelopeWitness ==
  /\ IsRelay
  /\ event.data.type = "new-comment"
  /\ wsProjectId[event.ws] = event.data.projectId
  /\ \E m \in Conns :
        /\ m # event.ws
        /\ readyState[m] = "OPEN"
        /\ Len(event.sends[m]) = 1
        /\ event.sends[m][1].comment = event.data.comment

\* C7 - Join is required before relaying: a new-comment or user-typing message
\* from a connection that never sent join-project causes no delivery.
JoinRequiredBeforeRelay ==
  (IsRelay /\ wsProjectId[event.ws] = UndefinedId) => event.sends = NoSends

\* C8 - No room-id spoofing: a new-comment or user-typing message naming a
\* room the sender is not a member of, sent by a connection joined to another
\* room, is dropped.
NoRoomIdSpoofing ==
  (/\ IsRelay
   /\ RoomsOf(event.ws) # {}
   /\ event.data.projectId \notin RoomsOf(event.ws))
  => event.sends = NoSends

\* ======================================================= editor properties
\* C9 - Auto-save debounce: a burst of mutations, each less than AutoSaveDelay
\* after the previous one, gets exactly one persistence request; the request
\* is issued no earlier than AutoSaveDelay after the last mutation and carries
\* the buffer as of that mutation.  While the session is mounted the flush of
\* the burst is either still pending or has been issued, exactly once.
AutoSaveDebounce ==
  /\ nRequests > 0 =>
       /\ lastRequest.at >= lastRequest.bufferAt + AutoSaveDelay
       /\ lastRequest.content = lastRequest.buffer
  /\ requestsSince <= 1
  /\ (mounted /\ nSchedules > 0)
       => Cardinality({t \in timers : t.kind = "save"}) + requestsSince = 1

AutoSaveDebounceWitness ==
  /\ nSchedules = 3
  /\ nRequests = 1
  /\ bufferSince.at = 2 * TickMs
  /\ lastRequest.bufferAt = bufferSince.at
  /\ lastRequest.at = bufferSince.at + AutoSaveDelay
  /\ lastRequest.content = content
  /\ now > lastRequest.at

\* C10 - Manual save: the /save command issues a persistence request with the
\* current buffer at once, and leaves no scheduled flush pending.
ManualSaveImmediate ==
  edEvent = "save" =>
    /\ nRequests > 0
    /\ lastRequest.at = now
    /\ lastRequest.content = content
    /\ \A t \in timers : t.kind # "save"

\* C11 - Persistence failure handling: a failed flush leaves the buffer as it
\* was and issues no request and sets no timer (no automatic retry): every
\* request, issued or pending, comes from its own scheduleAutoSave call, and a
\* request carries the buffer current when it is issued.
PersistenceFailureHandling ==
  /\ [](nRequests + Cardinality({t \in timers : t.kind = "save"}) <= nSchedules)
  /\ [][edEvent' = "failure" =>
          /\ content' = content
          /\ bufferSince' = bufferSince
          /\ nRequests' = nRequests
          /\ timers' = timers
          /\ inflight' \subseteq inflight]_vars
  /\ [][nRequests' # nRequests => lastRequest'.content = content']_vars

PersistenceFailureWitness ==
  /\ edEvent = "failure"
  /\ mounted
  /\ autoSaveStatus = "idle"
  /\ inflight = {}
  /\ nRequests = 1
  /\ content = lastRequest.content
  /\ \A t \in timers : t.kind # "save"

\* C12 - Edits during an in-flight save: the next flush request is issued only
\* after the in-flight one has settled, so a session never has two persistence
\* requests in flight at once.
SingleRequestInFlight ==
  Cardinality(inflight) <= 1

\* C13 - No empty rooms: every key of projectClients has a non-empty member
\* set; a key appears only while a join-project of that room is handled and the
\* sender is added to it, and a key disappears only while a close is handled.
NoEmptyRooms ==
  /\ [](\A p \in DOMAIN projectClients : projectClients[p] # {})
  /\ [][\A p \in (DOMAIN projectClients') \ (DOMAIN projectClients) :
          /\ event'.kind = "message"
          /\ event'.data.type = "join-project"
          /\ event'.data.projectId = p
          /\ event'.ws \in projectClients'[p]]_vars
  /\ [][\A p \in (DOMAIN projectClients) \ (DOMAIN projectClients') :
          /\ event'.kind = "close"
          /\ projectClients[p] = {event'.ws}]_vars

NoEmptyRoomsWitness ==
  /\ event.kind = "close"
  /\ Truthy(wsProjectId[event.ws])
  /\ ~MapHas(projectClients, wsProjectId[event.ws])
  /\ DOMAIN projectClients # {}

RegistryConsistency ==
  \A c \in Conns, R \in ProjectIds :
    readyState[c] \in {"OPEN", "CLOSING"} =>
      ((MapHas(projectClients, R) /\ c \in projectClients[R]) <=> wsProjectId[c] = R)

\* C18 - Join is idempotent: a join-project for the room already recorded on
\* the connection leaves the registry as it was, and a relay is sent to a
\* member once however often that member joined.
JoinIdempotent ==
  /\ [][event'.rejoin => UNCHANGED <<projectClients, wsProjectId>>]_vars
  /\ [](\A m \in Conns : Len(event.sends[m]) <= 1)

JoinIdempotentWitness ==
  /\ event.kind = "message"
  /\ event.rejoin
  /\ projectClients[event.data.projectId] = Conns
  /\ RoomsOf(event.ws) = {event.data.projectId}

\* C19 - Relaying does not change membership: handling a new-comment or
\* user-typing message leaves projectClients and every ws.projectId unchanged.
RelayKeepsMembership ==
  [][(event'.kind = "message" /\ event'.data.type \in {"new-comment", "user-typing"})
       => UNCHANGED <<projectClients, wsProjectId>>]_vars

RelayKeepsMembershipWitness ==
  /\ IsRelay
  /\ readyState[event.ws] = "OPEN"
  /\ wsProjectId[event.ws] = UndefinedId
  /\ RoomsOf(event.ws) = {}
  /\ ~MapHas(projectClients, event.data.projectId)
  /\ DOMAIN projectClients # {}

\* C20 - A dropped protocol error has no effect on others: handling an
\* unparseable payload leaves the room map as it was and, for every other
\* connection, leaves its recorded room and transport state as they were and
\* sends it nothing.
ProtocolErrorContained ==
  [][event'.kind = "malformed" =>
       /\ projectClients' = projectClients
       /\ \A c \in Conns \ {event'.ws} :
            /\ wsProjectId'[c] = wsProjectId[c]
            /\ readyState'[c] = readyState[c]
            /\ event'.sends[c] = <<>>]_vars

ProtocolErrorContainedWitness ==
  /\ event.kind = "malformed"
  /\ \E c \in Conns \ {event.ws} :
        /\ readyState[c] = "OPEN"
        /\ wsProjectId[c] = wsProjectId[event.ws]
        /\ Truthy(wsProjectId[c])
        /\ {c, event.ws} \subseteq projectClients[wsProjectId[c]]

NoReplay ==
  [][\A c \in Conns :
       inbox'[c] # inbox[c] =>
         /\ event'.kind = "message"
         /\ event'.data.type \in {"new-comment", "user-typing"}
         /\ nRelayed' = nRelayed + 1
         /\ inbox'[c] = inbox[c] \o << [from |-> event'.ws, n |-> nRelayed',
                                        projectId |-> event'.data.projectId] >>
         /\ readyState[c] = "OPEN"
         /\ MapHas(projectClients, event'.data.projectId)
         /\ c \in projectClients[event'.data.projectId]]_vars

NoReplayWitness ==
  /\ nRelayed > 0
  /\ event.kind = "message"
  /\ event.data.type = "join-project"
  /\ ~event.rejoin
  /\ readyState[event.ws] = "OPEN"
  /\ inbox[event.ws] = <<>>
  /\ \E d \in projectClients[event.data.projectId] \ {event.ws} :
        readyState[d] = "OPEN" /\ wsProjectId[d] = event.data.projectId

\* C23 - Cleanup covers every accepted room id: once the close of a joined
\* connection has been handled, the room recorded on it, whatever value
\* join-project accepted as its key (0 included), does not hold the connection
\* and is gone if that left it empty.
CleanupEveryRoomId ==
  \A c \in Conns :
    (readyState[c] = "CLOSED" /\ wsProjectId[c] # UndefinedId) =>
      (MapHas(projectClients, wsProjectId[c]) =>
         /\ c \notin projectClients[wsProjectId[c]]
         /\ projectClients[wsProjectId[c]] # {})

\* C25 - Status indicator matches pending work: while the editor is mounted
\* and a debounce timer is pending or a persistence request is in flight,
\* autoSaveStatus is 'saving'.
StatusMatchesPendingWork ==
  (/\ mounted
   /\ \/ \E t \in timers : t.kind = "save"
      \/ inflight # {})
  => autoSaveStatus = "saving"

\* C26 - No edit is dropped at unmount: a buffer mutation that no persistence
\* request has carried yet has a flush pending, whether or not the editor is
\* still mounted, so that a request with content at least as recent follows.
NoEditDropped ==
  (/\ bufferSince.at > 0
   /\ \/ lastRequest = NoRequest
      \/ lastRequest.bufferAt < bufferSince.at
      \/ lastRequest.content # bufferSince.content)
  => \E t \in timers : t.kind = "save" /\ t.arg = bufferSince.content

\* C24 - Eventual persistence of the final buffer: in a session that stays
\* mounted and whose requests all succeed, once no flush is pending and no
\* request is in flight the stored description is the buffer, in whatever
\* order the requests were applied and answered.
FinalBufferPersisted ==
  (/\ mounted
   /\ \A t \in timers : t.kind # "save"
   /\ inflight = {})
  => persisted = content

\* C27 - Upload insertion keeps concurrent edits: when an upload completes the
\* new buffer is the buffer of that moment with the file reference inserted
\* somewhere in it, and that buffer is what the pending flush carries.
UploadKeepsEdits ==
  edEvent = "uploaded" =>
    /\ \E k \in 0..Len(preUpload) :
         \E ins \in {FileLink \o "\n", "\n" \o FileLink \o "\n"} :
           content = SubSeq(preUpload, 1, k) \o ins \o SubSeq(preUpload, k + 1, Len(preUpload))
    /\ \E t \in timers : t.kind = "save" /\ t.arg = content

\* C22 - Optimistic local comment: submitting a comment that has text or an
\* attachment appends it to the poster's list in that step, connected or not,
\* and it is sent, in that same step, exactly when the client is connected.
OptimisticLocalComment ==
  [][nSubmitted' # nSubmitted =>
       /\ comments' = Append(comments, [src |-> "local", n |-> nSubmitted'])
       /\ sent' # sent => (isConnected /\ wsCurrent # 0 /\ sockets[wsCurrent] = "OPEN")
       /\ (isConnected /\ wsCurrent # 0 /\ sockets[wsCurrent] = "OPEN") =>
            (/\ Len(sent') = Len(sent) + 1
             /\ sent'[Len(sent')].type = "new-comment"
             /\ sent'[Len(sent')].comment = nSubmitted')]_vars

OptimisticLocalCommentWitness ==
  /\ clEvent = "submit"
  /\ ~isConnected
  /\ nSubmitted = 2
  /\ comments = << [src |-> "local", n |-> 1], [src |-> "local", n |-> 2] >>
  /\ \E i \in 1..Len(sent) : sent[i].type = "new-comment" /\ sent[i].comment = 1
  /\ \A i \in 1..Len(sent) : sent[i].comment # 2

\* C28 - Client connection flag tracks the current socket: whenever the hook's
\* current socket is open isConnected is true; no close or error event of a
\* socket the hook has replaced makes it false while the current one is open.
ConnectionFlagTracksSocket ==
  (wsCurrent # 0 /\ sockets[wsCurrent] = "OPEN") => isConnected

\* C29 - Every received comment is shown once: once the effect has run for the
\* latest message, the comments shown are the comment-added messages received,
\* each once, in arrival order.
EveryCommentShownOnce ==
  rendered = lastMessage =>
    comments = [i \in 1..Len(received) |-> [src |-> "remote", n |-> received[i]]]

\* C30 - Typing indicator lifetime: U is in typingUsers until 3 seconds have
\* passed since the last user-typing message for U was handled, and is out of
\* it after that.
TypingIndicatorLifetime ==
  \A u \in Users :
    lastTyping[u] >= 0 =>
      /\ clientNow < lastTyping[u] + TypingDelay => u \in typingUsers
      /\ (/\ clientNow >= lastTyping[u] + TypingDelay
          /\ \A t \in typingTimers : t.due > clientNow) => u \notin typingUsers

====
